---- MODULE Spec2Model ----
(***************************************************************************)
(* Model of the nexus-sovereign core: the consensus engine                 *)
(* (src/vip/byzantine_voter.py) and the event monitor                       *)
(* (src/vip/event_monitor.py) with the incubator it calls.                  *)
(*                                                                         *)
(* Confidence scores are Python floats (IEEE-754 binary64).  They are      *)
(* modelled exactly: a non-negative double x < 256 is the triple of limbs  *)
(* <<hi, mid, lo>>, each below Base = 2^24, with                            *)
(*     x = (hi * 2^48 + mid * 2^24 + lo) * 2^-64                            *)
(* (8 integer bits, 64 fractional bits), and every arithmetic step is      *)
(* rounded to 53 significant bits, ties to even, as the hardware does.     *)
(* The exact results are representable for every value of at least 2^-11.  *)
(***************************************************************************)
EXTENDS Integers, Sequences, FiniteSets, TLC

\* ------------------------------------------------------------------------
\* binary64 arithmetic on limbs

Base == 2^24
Unit == 2^16
Mantissa == 53

\* int -> float, exact
FromInt(n) == <<n * Unit, 0, 0>>

\* exact sum of two values
AddBits(a, b) ==
    LET lo  == a[3] + b[3]
        mid == a[2] + b[2] + (lo \div Base)
        hi  == a[1] + b[1] + (mid \div Base)
    IN  <<hi, mid % Base, lo % Base>>

\* exact quotient and remainder of a value by the small natural n
DivSmall(a, n) ==
    LET c2 == (a[1] % n) * Base + a[2]
        c3 == (c2 % n) * Base + a[3]
    IN  [q |-> <<a[1] \div n, c2 \div n, c3 \div n>>, r |-> c3 % n]

\* exact product of a value by the small natural m
MulSmall(a, m) ==
    LET lo  == a[3] * m
        mid == a[2] * m + (lo \div Base)
        hi  == a[1] * m + (mid \div Base)
    IN  <<hi, mid % Base, lo % Base>>

\* exponent of the leading bit of the high limb: 2^e <= h < 2^(e+1)
TopBit(h) == CHOOSE e \in 0..23 : 2^e <= h /\ h < 2^(e + 1)

\* round an exact value (sticky: a non-zero part lies beyond the last limb)
\* to Mantissa significant bits, ties to even
Round53(a, sticky) ==
    IF a[1] = 0 THEN a
    ELSE LET k == TopBit(a[1]) + 48 - (Mantissa - 1)
         IN  IF k < 1 THEN a
             ELSE LET keep    == a[3] \div 2^k
                      dropped == a[3] % 2^k
                      half    == 2^(k - 1)
                      guard   == dropped >= half
                      rest    == sticky \/ (dropped % half # 0)
                      trunc   == <<a[1], a[2], keep * 2^k>>
                  IN  IF guard /\ (rest \/ keep % 2 = 1)
                      THEN AddBits(trunc, <<0, 0, 2^k>>)
                      ELSE trunc

\* float + float
FAdd(a, b) == Round53(AddBits(a, b), FALSE)

\* float / int
FDivInt(a, n) == LET d == DivSmall(a, n) IN Round53(d.q, d.r # 0)

\* float < float
FLess(a, b) ==
    \/ a[1] < b[1]
    \/ a[1] = b[1] /\ a[2] < b[2]
    \/ a[1] = b[1] /\ a[2] = b[2] /\ a[3] < b[3]

\* a decimal literal with two places, given in hundredths, read as a float:
\* the nearest double to c/100
FromDecimal(c) == FDivInt(FromInt(c), 100)

\* format(x, ".2f"), in hundredths: the exact value of x rounded to two
\* decimal places, ties to even
Fmt2(x) ==
    LET p     == MulSmall(x, 100)
        whole == p[1] \div Unit
        frac  == p[1] % Unit
        half  == frac >= Unit \div 2
        rest  == frac % (Unit \div 2) # 0 \/ p[2] # 0 \/ p[3] # 0
    IN  IF half /\ (rest \/ whole % 2 = 1) THEN whole + 1 ELSE whole


\* ------------------------------------------------------------------------
\* inputs and bounds

\* rows the consensus_votes table may hold
MaxVotes == 4

\* voting agents, as (agent_id, agent_type)
Whale == [agent_id |-> "whale_001", agent_type |-> "whale"]
GhostCommit == [agent_id |-> "ghost_commit_001", agent_type |-> "ghost_commit"]
Agents == {Whale, GhostCommit}

\* confidence scores, in hundredths (0.70, 0.80, 0.90, 1.00)
Confs == {70, 80, 90, 100}

Categories == {"market_anomaly"}

\* evidence payloads: dicts, as their (key, value) pairs in insertion order.
\* EvA and EvAr hold the same content in different insertion order.
EvA  == << <<"type", "large_transfer">>, <<"token", "USDT">> >>
EvAr == << <<"token", "USDT">>, <<"type", "large_transfer">> >>
EvB  == << <<"type", "large_transfer">>, <<"token", "USDC">> >>
Evidence == {EvA, EvAr, EvB}

\* ------------------------------------------------------------------------
\* state

VARIABLES
    votes,      \* the consensus_votes table, rows in insertion order
    ret,        \* what the last consensus-engine call returned
    truth,      \* history: fingerprints check_consensus has returned True for
    lastTrue,   \* history: per fingerprint, the confidence of a True result
                \* since which no vote was cast (-1: none)
    now,        \* the clock behind datetime.now() and created_at, in ticks
    ledger,     \* the ledger table, rows in insertion order
    wret,       \* what the last write_to_ledger returned
    last_check, \* EventMonitor.last_check
    end_time,   \* run_monitor's end_time
    wake_at,    \* when the time.sleep of the running cycle ends
    mpc,        \* where run_monitor is: init, loop, process, sleep, done,
                \* crashed
    events,     \* the batch check_new_events returned, as ledger row numbers
    idx,        \* the next entry of events the for loop takes
    mret,       \* what the last process_event did and returned
    evaluated,  \* history: per ledger row, how often process_event took it
    readFailed, \* history: a ledger read of the monitor has failed
    read_at,    \* when the store answered the last check_new_events
    lostWindow, \* history: the rows a failed read would have returned
    override,   \* the SOVEREIGN_OVERRIDE variable of the process environment
    system_status, \* the system_status table, rows in insertion order
    kret,       \* what the last check_kill_switch did and returned
    current_mode, \* ModeManager.current_mode
    mode_ret,   \* what the last set_mode returned
    files,      \* the files in Incubator.temp_dir
    task,       \* the subprocess of the spawn in progress: none, running,
                \* exited, failed, killed
    spc,        \* where spawn is: idle, run
    cur,        \* the spawn in progress: its arguments, file and deadline
    sret,       \* what the last spawn did and returned
    hret,       \* what the last handle_event did and returned
    other,      \* a second Incubator on the same temp_dir: where its spawn
                \* is, its subprocess and its temp file
    chk,        \* a check_consensus between its select and its update
    spider,     \* SpiderWorker: running, its listener thread and work loop
    whale       \* the whale worker process: where it is and what its
                \* kill-switch check returned

voterVars == <<votes, ret, truth, lastTrue>>

ledgerVars == <<ledger, wret, last_check, end_time, wake_at, mpc, events, idx,
                mret, evaluated, readFailed>>

killVars == <<override, system_status, kret, current_mode, mode_ret>>

pollVars == <<read_at, lostWindow>>

incubatorVars == <<files, task, spc, cur, sret, hret, other>>

processVars == <<chk, spider, whale>>

monitorVars == <<now, ledger, wret, last_check, end_time, wake_at, mpc, events,
                 idx, mret, evaluated, readFailed, read_at, lostWindow,
                 override, system_status, kret, current_mode, mode_ret, files,
                 task, spc, cur, sret, hret, other, chk, spider, whale>>

vars == <<votes, ret, truth, lastTrue, now, ledger, wret, last_check, end_time,
          wake_at, mpc, events, idx, mret, evaluated, readFailed, read_at,
          lostWindow, override, system_status, kret, current_mode, mode_ret,
          files, task, spc, cur, sret, hret, other, chk, spider, whale>>

\* ------------------------------------------------------------------------
\* byzantine_voter.py

MIN_AGENTS == 3
\* 0.8, in hundredths
CONFIDENCE_THRESHOLD == 80

\* the keys of a dict in the order sorted() gives them (code point order)
KeyOrder == <<"amount", "entity", "token", "tx_hash", "type">>
KeyRank(k) == CHOOSE i \in 1..Len(KeyOrder) : KeyOrder[i] = k

Range(s) == {s[i] : i \in 1..Len(s)}

\* json.dumps(d): the pairs in insertion order
DumpsUnsorted(d) == d

\* json.dumps(d, sort_keys=True): the pairs in ascending key order
Dumps(d) ==
    [i \in 1..Len(d) |->
        CHOOSE p \in Range(d) :
            Cardinality({q \in Range(d) : KeyRank(q[1]) < KeyRank(p[1])}) = i - 1]

\* hashlib.md5(s).hexdigest(): a digest that identifies the string
Md5(s) == <<"md5", s>>

generate_event_hash_unsorted(event_data) == Md5(DumpsUnsorted(event_data))

generate_event_hash(event_data) == Md5(Dumps(event_data))

Hashes == {generate_event_hash(e) : e \in Evidence}

\* the record of a call: its arguments and what it returned.  A message
\* f"Insufficient votes: {count}/{quorum}" is kind "insufficient" with count and
\* quorum; f"... {avg:.2f} ..." is kind "low" or "confirmed" with conf, the
\* formatted mean in hundredths.  repeat is history: the call was a
\* check_consensus of an event that a check had confirmed with no vote since.
NoRet == [op |-> "none", args |-> <<>>, event_hash |-> <<>>, ok |-> FALSE,
          kind |-> "none", count |-> 0, quorum |-> 0, conf |-> -1,
          pending |-> <<>>, repeat |-> FALSE]

Vote(agent, event_data, confidence_score, vote_category, status) ==
    [event_hash       |-> generate_event_hash(event_data),
     agent_id         |-> agent.agent_id,
     agent_type       |-> agent.agent_type,
     vote_category    |-> vote_category,
     confidence_score |-> confidence_score,
     evidence_payload |-> event_data,
     vote_status      |-> status]

\* cast_vote as an upsert: a second vote of an agent on an event replaces
\* its first
cast_vote_upsert(agent, event_data, confidence_score, vote_category) ==
    LET v    == Vote(agent, event_data, confidence_score, vote_category, "pending")
        same == {i \in 1..Len(votes) : /\ votes[i].agent_id = v.agent_id
                                       /\ votes[i].event_hash = v.event_hash}
    IN  /\ Len(votes) < MaxVotes
        /\ votes' = IF same = {} THEN Append(votes, v)
                    ELSE [i \in 1..Len(votes) |-> IF i \in same THEN v ELSE votes[i]]
        /\ ret' = [NoRet EXCEPT !.op = "cast_vote",
                                !.args = <<agent, event_data, confidence_score,
                                           vote_category>>,
                                !.event_hash = generate_event_hash(event_data)]
        /\ lastTrue' = [h \in Hashes |-> -1]
        /\ UNCHANGED truth

\* cast_vote storing the vote as confirmed when the event already is
cast_vote_inherit(agent, event_data, confidence_score, vote_category) ==
    LET h == generate_event_hash(event_data)
        status == IF \E i \in 1..Len(votes) : /\ votes[i].event_hash = h
                                              /\ votes[i].vote_status = "confirmed"
                  THEN "confirmed" ELSE "pending"
    IN  /\ Len(votes) < MaxVotes
        /\ votes' = Append(votes, Vote(agent, event_data, confidence_score,
                                       vote_category, status))
        /\ ret' = [NoRet EXCEPT !.op = "cast_vote",
                                !.args = <<agent, event_data, confidence_score,
                                           vote_category>>,
                                !.event_hash = h]
        /\ lastTrue' = [k \in Hashes |-> -1]
        /\ UNCHANGED truth

cast_vote(agent, event_data, confidence_score, vote_category) ==
    /\ Len(votes) < MaxVotes
    /\ votes' = Append(votes, Vote(agent, event_data, confidence_score,
                                   vote_category, "pending"))
    /\ ret' = [NoRet EXCEPT !.op = "cast_vote",
                            !.args = <<agent, event_data, confidence_score,
                                       vote_category>>,
                            !.event_hash = generate_event_hash(event_data)]
    /\ lastTrue' = [h \in Hashes |-> -1]
    /\ UNCHANGED truth

\* select('*').eq('event_hash', h), restricted to pending rows
SelectPendingVotes(event_hash) ==
    SelectSeq(votes, LAMBDA v : v.event_hash = event_hash /\ v.vote_status = "pending")

\* select('*').eq('event_hash', h), keeping the first vote of each agent
SelectFirstVotePerAgent(event_hash) ==
    LET first == {i \in 1..Len(votes) :
                    /\ votes[i].event_hash = event_hash
                    /\ \A j \in 1..(i - 1) :
                          votes[j].event_hash = event_hash
                          => votes[j].agent_id # votes[i].agent_id}
    IN  [k \in 1..Cardinality(first) |->
            votes[CHOOSE i \in first : Cardinality({j \in first : j < i}) = k - 1]]

\* select('*').eq('event_hash', h)
SelectVotes(event_hash) ==
    SelectSeq(votes, LAMBDA v : v.event_hash = event_hash)

RECURSIVE SumConfidence(_, _)
\* sum(v['confidence_score'] for v in votes.data), left to right from 0
SumConfidence(vs, i) ==
    IF i = 0 THEN FromInt(0)
    ELSE FAdd(SumConfidence(vs, i - 1), FromDecimal(vs[i].confidence_score))

\* sum(...) / len(votes.data)
AvgConfidence(vs) == FDivInt(SumConfidence(vs, Len(vs)), Len(vs))

InsufficientLE(n) == n <= MIN_AGENTS

\* len(votes.data) < MIN_AGENTS
Insufficient(n) == n < MIN_AGENTS

\* avg_confidence < CONFIDENCE_THRESHOLD
LowConfidence(avg) == FLess(avg, FromDecimal(CONFIDENCE_THRESHOLD))

\* update({'vote_status': s}).eq('event_hash', h), on every row
UpdateAllStatus(event_hash, status) ==
    [i \in 1..Len(votes) |-> [votes[i] EXCEPT !.vote_status = status]]

\* update({'vote_status': s}).eq('event_hash', h)
UpdateStatus(event_hash, status) ==
    [i \in 1..Len(votes) |->
        IF votes[i].event_hash = event_hash
        THEN [votes[i] EXCEPT !.vote_status = status]
        ELSE votes[i]]

\* check_consensus, with a failed check writing the status back to pending
check_consensus_revert(event_hash) ==
    LET vs == SelectVotes(event_hash)
        n  == Len(vs)
        r  == [NoRet EXCEPT !.op = "check_consensus", !.args = <<event_hash>>,
                            !.event_hash = event_hash,
                            !.count = n, !.quorum = MIN_AGENTS,
                            !.repeat = lastTrue[event_hash] # -1]
    IN  IF Insufficient(n)
        THEN /\ ret' = [r EXCEPT !.kind = "insufficient"]
             /\ votes' = UpdateStatus(event_hash, "pending")
             /\ UNCHANGED <<truth, lastTrue>>
        ELSE LET avg == AvgConfidence(vs)
             IN  IF LowConfidence(avg)
                 THEN /\ ret' = [r EXCEPT !.kind = "low", !.conf = Fmt2(avg)]
                      /\ votes' = UpdateStatus(event_hash, "pending")
                      /\ UNCHANGED <<truth, lastTrue>>
                 ELSE /\ votes' = UpdateStatus(event_hash, "confirmed")
                      /\ ret' = [r EXCEPT !.ok = TRUE, !.kind = "confirmed",
                                          !.conf = Fmt2(avg)]
                      /\ truth' = truth \cup {event_hash}
                      /\ lastTrue' = [lastTrue EXCEPT ![event_hash] = Fmt2(avg)]

check_consensus(event_hash) ==
    LET vs == SelectVotes(event_hash)
        n  == Len(vs)
        r  == [NoRet EXCEPT !.op = "check_consensus", !.args = <<event_hash>>,
                            !.event_hash = event_hash,
                            !.count = n, !.quorum = MIN_AGENTS,
                            !.repeat = lastTrue[event_hash] # -1]
    IN  IF Insufficient(n)
        THEN /\ ret' = [r EXCEPT !.kind = "insufficient"]
             /\ UNCHANGED <<votes, truth, lastTrue>>
        ELSE LET avg == AvgConfidence(vs)
             IN  IF LowConfidence(avg)
                 THEN /\ ret' = [r EXCEPT !.kind = "low", !.conf = Fmt2(avg)]
                      /\ UNCHANGED <<votes, truth, lastTrue>>
                 ELSE /\ votes' = UpdateStatus(event_hash, "confirmed")
                      /\ ret' = [r EXCEPT !.ok = TRUE, !.kind = "confirmed",
                                          !.conf = Fmt2(avg)]
                      /\ truth' = truth \cup {event_hash}
                      /\ lastTrue' = [lastTrue EXCEPT ![event_hash] = Fmt2(avg)]

\* check_consensus as the two requests it sends to the store, for callers
\* that run beside cast_vote.  The select: the rows it returns, by number
check_consensus_select(event_hash) ==
    /\ chk.pc = "idle"
    /\ chk' = [pc |-> "selected", event_hash |-> event_hash,
               seen |-> {i \in 1..Len(votes) : votes[i].event_hash = event_hash},
               marked |-> {}]
    /\ UNCHANGED <<votes, ret, truth, lastTrue>>

\* the rest of check_consensus: the count and the mean of the rows selected,
\* and the update, which the store applies to the rows that carry the
\* event_hash when it arrives
check_consensus_update ==
    /\ chk.pc = "selected"
    /\ LET event_hash == chk.event_hash
           vs == [k \in 1..Cardinality(chk.seen) |->
                    votes[CHOOSE i \in chk.seen :
                            Cardinality({j \in chk.seen : j < i}) = k - 1]]
           n  == Len(vs)
           r  == [NoRet EXCEPT !.op = "check_consensus", !.args = <<event_hash>>,
                               !.event_hash = event_hash,
                               !.count = n, !.quorum = MIN_AGENTS,
                               !.repeat = lastTrue[event_hash] # -1]
       IN  IF Insufficient(n)
           THEN /\ ret' = [r EXCEPT !.kind = "insufficient"]
                /\ chk' = [chk EXCEPT !.pc = "idle"]
                /\ UNCHANGED <<votes, truth, lastTrue>>
           ELSE LET avg == AvgConfidence(vs)
                IN  IF LowConfidence(avg)
                    THEN /\ ret' = [r EXCEPT !.kind = "low", !.conf = Fmt2(avg)]
                         /\ chk' = [chk EXCEPT !.pc = "idle"]
                         /\ UNCHANGED <<votes, truth, lastTrue>>
                    ELSE /\ votes' = UpdateStatus(event_hash, "confirmed")
                         /\ chk' = [chk EXCEPT
                                      !.pc = "idle",
                                      !.marked = {i \in 1..Len(votes) :
                                                    votes[i].event_hash = event_hash}]
                         /\ ret' = [r EXCEPT !.ok = TRUE, !.kind = "confirmed",
                                             !.conf = Fmt2(avg)]
                         /\ truth' = truth \cup {event_hash}
                         /\ lastTrue' = [lastTrue EXCEPT ![event_hash] = Fmt2(avg)]

\* the event_hash column of the rows with vote_status pending
PendingHashes == SelectSeq(votes, LAMBDA v : v.vote_status = "pending")

\* the lists that hold each element of the set S exactly once
ListsOf(S) ==
    {s \in [1..Cardinality(S) -> S] : \A i, j \in 1..Cardinality(S) : s[i] = s[j] => i = j}

\* get_pending_events, without the set(): one entry per pending row
get_pending_events_rows ==
    /\ ret' = [NoRet EXCEPT !.op = "get_pending_events",
                            !.pending = [i \in 1..Len(PendingHashes) |->
                                            PendingHashes[i].event_hash]]
    /\ UNCHANGED <<votes, truth, lastTrue>>

\* list(set(...)): the distinct hashes, in the iteration order of the set,
\* which the code does not control
get_pending_events ==
    /\ \E l \in ListsOf({v.event_hash : v \in Range(PendingHashes)}) :
            ret' = [NoRet EXCEPT !.op = "get_pending_events", !.pending = l]
    /\ UNCHANGED <<votes, truth, lastTrue>>

\* one agent votes on two events with every confidence
CastVote ==
    \E e \in {EvA, EvB}, c \in Confs, cat \in Categories :
        cast_vote(Whale, e, c, cat)

\* every agent votes, at confidence 1.0, on evidence in either key order
CastVoteAnyAgent ==
    \E agent \in Agents, e \in Evidence, cat \in Categories :
        cast_vote(agent, e, 100, cat)

CheckConsensus == \E h \in Hashes : check_consensus(h)

CheckConsensusSelect == \E h \in Hashes : check_consensus_select(h)

CheckConsensusUpdate == check_consensus_update

GetPendingEvents == get_pending_events

\* ------------------------------------------------------------------------
\* bounds and inputs of the event monitor

\* the clock stops here
MaxTime == 3
\* rows the ledger may hold
MaxRecords == 2
\* run_monitor's duration, in ticks
DurationTicks == 3
\* time.sleep(30): one tick
PollTicks == 1

\* what workers write: (agent_id, agent_type, message_type, payload)
Findings ==
    { [agent_id |-> "pulse_scanner_001", agent_type |-> "pulse_scanner",
       message_type |-> "pulse_scan", payload |-> [return_pct |-> 15]],
      [agent_id |-> "pulse_scanner_001", agent_type |-> "pulse_scanner",
       message_type |-> "pulse_scan", payload |-> [return_pct |-> -15]],
      [agent_id |-> "ghost_commit_001", agent_type |-> "hunter",
       message_type |-> "github_scan", payload |-> [new_repos |-> 5]],
      [agent_id |-> "simulator_001", agent_type |-> "simulator",
       message_type |-> "simulation_complete", payload |-> [scenarios |-> 1]],
      [agent_id |-> "simulator_001", agent_type |-> "simulator",
       message_type |-> "pulse_scan", payload |-> [return_pct |-> 15]] }

\* the agent families an agent_id contains as a substring
Families ==
    [a \in {"pulse_scanner_001", "ghost_commit_001", "simulator_001"} |->
        CASE a = "pulse_scanner_001" -> {"pulse"}
          [] a = "ghost_commit_001"  -> {"ghost_commit"}
          [] OTHER                   -> {}]

\* sub in agent_id
Contains(sub, agent_id) == sub \in Families[agent_id]

\* payload.get(key, default)
Get(payload, key, default) ==
    IF key \in DOMAIN payload THEN payload[key] ELSE default

\* ------------------------------------------------------------------------
\* base_worker.py

\* write_to_ledger reporting True also when the insert failed
write_to_ledger_quiet(f) ==
    /\ Len(ledger) < MaxRecords
    /\ \E up \in BOOLEAN :
         IF up
         THEN /\ ledger' = Append(ledger,
                    [id |-> Len(ledger) + 1, agent_id |-> f.agent_id,
                     agent_type |-> f.agent_type, message_type |-> f.message_type,
                     payload |-> f.payload, status |-> "pending",
                     created_at |-> now])
              /\ evaluated' = Append(evaluated, 0)
              /\ wret' = TRUE
         ELSE /\ wret' = TRUE
              /\ UNCHANGED <<ledger, evaluated>>
    /\ UNCHANGED <<now, last_check, end_time, wake_at, mpc, events, idx, mret,
                   readFailed>>

\* BaseWorker.write_to_ledger: the store stamps created_at; an unreachable
\* store makes it return False
write_to_ledger(f) ==
    /\ Len(ledger) < MaxRecords
    /\ \E up \in BOOLEAN :
         IF up
         THEN /\ ledger' = Append(ledger,
                    [id |-> Len(ledger) + 1, agent_id |-> f.agent_id,
                     agent_type |-> f.agent_type, message_type |-> f.message_type,
                     payload |-> f.payload, status |-> "pending",
                     created_at |-> now])
              /\ evaluated' = Append(evaluated, 0)
              /\ wret' = TRUE
         ELSE /\ wret' = FALSE
              /\ UNCHANGED <<ledger, evaluated>>
    /\ UNCHANGED <<now, last_check, end_time, wake_at, mpc, events, idx, mret,
                   readFailed>>

\* ------------------------------------------------------------------------
\* whale.py

\* confidence scores fetch_whale_tx computes, in hundredths: between 0.80 and
\* 0.95 for transfers of min_usd and more
WhaleConfs == {80, 95}

\* fetch_whale_tx for one qualifying transfer: cast_vote, then the insert of
\* the alert into the ledger
WhaleAlert ==
    /\ \E e \in {EvA, EvB}, c \in WhaleConfs :
         /\ cast_vote(Whale, e, c, "market_anomaly")
         /\ ledger' = Append(ledger,
                [id |-> Len(ledger) + 1, agent_id |-> "whale_001",
                 agent_type |-> "whale", message_type |-> "mega_whale_alert",
                 payload |-> e, status |-> "pending_review", created_at |-> now])
    /\ evaluated' = Append(evaluated, 0)
    /\ UNCHANGED <<now, wret, last_check, end_time, wake_at, mpc, events, idx, mret,
                   readFailed>>

\* ------------------------------------------------------------------------
\* pulse_scanner.py

\* MarketSimulator.run's write of its results, through its own copy of
\* write_to_ledger
WriteSimulation ==
    \E f \in {g \in Findings : g.message_type = "simulation_complete"} :
        write_to_ledger(f)

\* ------------------------------------------------------------------------
\* reporter.py

\* ReporterAgent.write_intelligence_briefing: one published record, or
\* nothing when the store is unreachable
ReporterBriefing ==
    /\ Len(ledger) < MaxRecords
    /\ \E up \in BOOLEAN :
         IF up
         THEN /\ ledger' = Append(ledger,
                    [id |-> Len(ledger) + 1, agent_id |-> "reporter_001",
                     agent_type |-> "intelligence",
                     message_type |-> "intelligence_briefing",
                     payload |-> [period_covered |-> "24 hours"],
                     status |-> "published", created_at |-> now])
              /\ evaluated' = Append(evaluated, 0)
         ELSE UNCHANGED <<ledger, evaluated>>
    /\ UNCHANGED <<now, wret, last_check, end_time, wake_at, mpc, events, idx, mret,
                   readFailed>>

\* ------------------------------------------------------------------------
\* incubator.py, as far as the monitor reaches it

Templates == {"geologist", "legal_auditor", "market_scanner", "custom"}

\* Incubator.spawn for a task type with no template: create_worker_template
\* returns None and spawn returns None before it creates anything.  The
\* response agents of the rule table all take this path.
spawn(task_type) ==
    IF task_type \notin Templates THEN "None" ELSE "True"

\* task types callers pass: the registered ones and a response agent of the
\* rule table
TaskTypes == Templates \cup {"investigator"}

\* task_params callers pass
TaskParams == {[resource |-> "lithium"], [code |-> "task"], [code |-> ""]}

\* timeouts callers pass, in ticks
SpawnTimeouts == {1, 2}

\* Incubator.create_worker_template: the generated text (named after its
\* template), the caller's code for custom, None for an unknown type
create_worker_template(task_type, task_params) ==
    IF task_type \notin Templates THEN "None"
    ELSE IF task_type = "custom" THEN Get(task_params, "code", "")
    ELSE task_type

\* "not code"
NotCode(code) == code \in {"None", ""}

\* temp_dir / f"temp_{task_type}_{timestamp}.py"
TempFile(task_type, timestamp) == [task_type |-> task_type, timestamp |-> timestamp]

NoSpawn == [task_type |-> "none", timeout |-> 0, started |-> 0, deadline |-> 0,
            temp_file |-> TempFile("none", 0)]

NoSpawnRet == [op |-> "none", task_type |-> "none", timeout |-> 0, started |-> 0,
               returned |-> 0, outcome |-> "none", result |-> "none"]

\* what spawn returns for an outcome of the run: True on every path
SpawnResult(outcome) == "True"

\* the finally block: temp_file.unlink() if it exists
Cleanup(fs, temp_file) == fs \ {temp_file}

\* spawn with the template check before anything is created
SpawnStart_eager ==
    /\ spc = "idle"
    /\ \E task_type \in TaskTypes, task_params \in TaskParams, timeout \in SpawnTimeouts :
         LET code == create_worker_template(task_type, task_params)
         IN  IF NotCode(code)
             THEN /\ sret' = [op |-> "spawn", task_type |-> task_type,
                              timeout |-> timeout, started |-> now, returned |-> now,
                              outcome |-> "unknown template", result |-> "None"]
                  /\ files' = files \cup {TempFile(task_type, now)}
                  /\ UNCHANGED <<task, spc, cur>>
             ELSE /\ files' = files \cup {TempFile(task_type, now)}
                  /\ task' = "running"
                  /\ spc' = "run"
                  /\ cur' = [task_type |-> task_type, timeout |-> timeout,
                             started |-> now, deadline |-> now + timeout,
                             temp_file |-> TempFile(task_type, now)]
                  /\ UNCHANGED sret
    /\ UNCHANGED <<hret, now, other>>

\* Incubator.spawn up to subprocess.run: an unknown template returns None
\* before anything is created; otherwise the temp file is written and the
\* subprocess started with its timeout
SpawnStart ==
    /\ spc = "idle"
    /\ \E task_type \in TaskTypes, task_params \in TaskParams, timeout \in SpawnTimeouts :
         LET code == create_worker_template(task_type, task_params)
         IN  IF NotCode(code)
             THEN /\ sret' = [op |-> "spawn", task_type |-> task_type,
                              timeout |-> timeout, started |-> now, returned |-> now,
                              outcome |-> "unknown template", result |-> "None"]
                  /\ UNCHANGED <<files, task, spc, cur>>
             ELSE /\ files' = files \cup {TempFile(task_type, now)}
                  /\ task' = "running"
                  /\ spc' = "run"
                  /\ cur' = [task_type |-> task_type, timeout |-> timeout,
                             started |-> now, deadline |-> now + timeout,
                             temp_file |-> TempFile(task_type, now)]
                  /\ UNCHANGED sret
    /\ UNCHANGED <<hret, now, other>>

\* the subprocess ends within the timeout without the cleanup
SpawnFinish_leak ==
    /\ spc = "run"
    /\ \E outcome \in {"completed", "fault", "exception"} :
         /\ task' = CASE outcome = "completed" -> "exited"
                      [] outcome = "fault"     -> "failed"
                      [] OTHER                 -> "none"
         /\ sret' = [op |-> "spawn", task_type |-> cur.task_type,
                     timeout |-> cur.timeout, started |-> cur.started,
                     returned |-> now, outcome |-> outcome,
                     result |-> SpawnResult(outcome)]
    /\ files' = files
    /\ spc' = "idle"
    /\ cur' = NoSpawn
    /\ UNCHANGED <<hret, now, other>>

\* the rest of spawn when the subprocess ends within the timeout: it exited
\* cleanly, exited with an error (stderr is printed), or subprocess.run
\* raised another exception; then the finally block and return True
SpawnFinish ==
    /\ spc = "run"
    /\ \E outcome \in {"completed", "fault", "exception"} :
         /\ task' = CASE outcome = "completed" -> "exited"
                      [] outcome = "fault"     -> "failed"
                      [] OTHER                 -> "none"
         /\ sret' = [op |-> "spawn", task_type |-> cur.task_type,
                     timeout |-> cur.timeout, started |-> cur.started,
                     returned |-> now, outcome |-> outcome,
                     result |-> SpawnResult(outcome)]
    /\ files' = Cleanup(files, cur.temp_file)
    /\ spc' = "idle"
    /\ cur' = NoSpawn
    /\ UNCHANGED <<hret, now, other>>

\* the timeout expires and the subprocess is left running
SpawnTimeout_nokill ==
    /\ spc = "run"
    /\ now >= cur.deadline
    /\ task' = "running"
    /\ sret' = [op |-> "spawn", task_type |-> cur.task_type,
                timeout |-> cur.timeout, started |-> cur.started,
                returned |-> now, outcome |-> "timeout",
                result |-> SpawnResult("timeout")]
    /\ files' = Cleanup(files, cur.temp_file)
    /\ spc' = "idle"
    /\ cur' = NoSpawn
    /\ UNCHANGED <<hret, now, other>>

\* the rest of spawn when the timeout expires: subprocess.run kills the
\* subprocess and raises TimeoutExpired, spawn prints "timed out"; then the
\* finally block and return True
SpawnTimeout ==
    /\ spc = "run"
    /\ now >= cur.deadline
    /\ task' = "killed"
    /\ sret' = [op |-> "spawn", task_type |-> cur.task_type,
                timeout |-> cur.timeout, started |-> cur.started,
                returned |-> now, outcome |-> "timeout",
                result |-> SpawnResult("timeout")]
    /\ files' = Cleanup(files, cur.temp_file)
    /\ spc' = "idle"
    /\ cur' = NoSpawn
    /\ UNCHANGED <<hret, now, other>>

NoOther == [spc |-> "idle", task |-> "none", temp_file |-> TempFile("none", 0),
            deadline |-> 0]

\* Incubator.spawn of a second Incubator on the same temp_dir, up to
\* subprocess.run: open(temp_file, "w") creates the file or truncates the one
\* of that name
OtherSpawnStart ==
    /\ other.spc = "idle"
    /\ \E task_type \in TaskTypes, task_params \in TaskParams, timeout \in SpawnTimeouts :
         /\ ~NotCode(create_worker_template(task_type, task_params))
         /\ files' = files \cup {TempFile(task_type, now)}
         /\ other' = [spc |-> "run", task |-> "running",
                      temp_file |-> TempFile(task_type, now),
                      deadline |-> now + timeout]
    /\ UNCHANGED <<task, spc, cur, sret, hret, now>>

\* the rest of that spawn: the subprocess ends or is killed at the timeout,
\* then the finally block
OtherSpawnEnd ==
    /\ other.spc = "run"
    /\ \E outcome \in {"completed", "fault", "exception", "timeout"} :
         /\ outcome = "timeout" => now >= other.deadline
         /\ other' = [spc |-> "idle",
                      task |-> CASE outcome = "completed" -> "exited"
                                 [] outcome = "fault"     -> "failed"
                                 [] outcome = "timeout"   -> "killed"
                                 [] OTHER                 -> "none",
                      temp_file |-> TempFile("none", 0), deadline |-> 0]
    /\ files' = Cleanup(files, other.temp_file)
    /\ UNCHANGED <<task, spc, cur, sret, hret, now>>

\* the abs() of the market_scan condition
Abs(x) == IF x < 0 THEN -x ELSE x

\* Incubator.handle_event's event_map; its conditions are Condition below
event_map ==
    [security_alert |->
        [spawn |-> <<"investigator", "counter_intel">>,
         reason |-> "Security exposure detected"],
     github_scan |->
        [spawn |-> <<"repo_analyzer", "code_scanner">>,
         reason |-> "Multiple new repositories detected"],
     market_scan |->
        [spawn |-> <<"volatility_analyzer", "risk_assessor">>,
         reason |-> "High volatility detected"],
     plan_rejected |->
        [spawn |-> <<"plan_optimizer", "risk_mitigator">>,
         reason |-> "Plan rejected by Inquisitor"]]

\* rule["condition"](event_data)
Condition(trigger_event, data) ==
    CASE trigger_event = "security_alert" -> Len(Get(data, "secret_keywords", <<>>)) > 0
      [] trigger_event = "github_scan"    -> Get(data, "new_repos", 0) > 2
      [] trigger_event = "market_scan"    -> Abs(Get(data, "return_pct", 0)) > 10
      [] trigger_event = "plan_rejected"  -> Get(data, "verdict", "None") = "REJECTED"

\* the Incubator class defines no log method, and handle_event begins with
\* self.log(...): every call raises AttributeError there
IncubatorHasLog == FALSE

\* Incubator.handle_event: whether it raised, what it returned and the spawns
\* it made, in order
handle_event(trigger_event, event_data) ==
    IF ~IncubatorHasLog
    THEN [raised |-> TRUE, triggered |-> FALSE, spawns |-> <<>>]
    ELSE IF trigger_event \in DOMAIN event_map /\ Condition(trigger_event, event_data)
    THEN [raised |-> FALSE, triggered |-> TRUE,
          spawns |-> [i \in 1..Len(event_map[trigger_event].spawn) |->
                        [task_type |-> event_map[trigger_event].spawn[i],
                         timeout |-> 60,
                         result |-> spawn(event_map[trigger_event].spawn[i])]]]
    ELSE [raised |-> FALSE, triggered |-> FALSE, spawns |-> <<>>]

NoCall == [call |-> <<>>, raised |-> FALSE, result |-> "none", spawns |-> <<>>]

\* trigger names and event data callers pass to handle_event
Triggers == {"security_alert", "github_scan", "market_scan", "plan_rejected",
             "unknown_event"}

EventDatas == {[new_repos |-> 5], [new_repos |-> 1], [return_pct |-> -15],
               [verdict |-> "APPROVED"], [verdict |-> "REJECTED"],
               [secret_keywords |-> <<"api_key">>]}

\* a call of Incubator.handle_event.  The spawns it would make are of
\* unregistered types, which return None and create nothing.
HandleEvent ==
    /\ spc = "idle"
    /\ \E trigger_event \in Triggers, event_data \in EventDatas :
         LET h == handle_event(trigger_event, event_data)
         IN  /\ hret' = [call |-> <<trigger_event, event_data>>,
                         raised |-> h.raised,
                         result |-> IF h.raised THEN "AttributeError"
                                    ELSE IF h.triggered THEN "True" ELSE "False",
                         spawns |-> h.spawns]
             /\ sret' = IF h.spawns = <<>> THEN sret
                        ELSE [op |-> "spawn",
                              task_type |-> h.spawns[Len(h.spawns)].task_type,
                              timeout |-> 60, started |-> now, returned |-> now,
                              outcome |-> "unknown template",
                              result |-> h.spawns[Len(h.spawns)].result]
    /\ UNCHANGED <<files, task, spc, cur, now, other>>

\* ------------------------------------------------------------------------
\* killswitch.py

\* rows the system_status table may hold
MaxStatusRows == 2

\* values of SOVEREIGN_OVERRIDE an operator sets
OverrideValues == {"ACTIVE", "HALT", "PAUSED"}

\* os.getenv('SOVEREIGN_OVERRIDE', 'ACTIVE')
Getenv(value) == IF value = "UNSET" THEN "ACTIVE" ELSE value

\* the rows the select without an order may return first: any row of the
\* table, 0 when it is empty
FirstRows == IF system_status = <<>> THEN {0} ELSE 1..Len(system_status)

\* check_kill_switch with every override other than HALT taken as active
check_kill_switch_halt_only(up, first) ==
    IF Getenv(override) = "HALT" THEN FALSE
    ELSE IF up /\ first # 0 /\ system_status[first].kill_signal = "HALT" THEN FALSE
    ELSE TRUE

\* check_kill_switch halting when the store cannot be reached
check_kill_switch_fail_closed(up, first) ==
    IF Getenv(override) # "ACTIVE" THEN FALSE
    ELSE IF ~up THEN FALSE
    ELSE IF first # 0 /\ system_status[first].kill_signal = "HALT" THEN FALSE
    ELSE TRUE

\* check_kill_switch: False on a local override other than ACTIVE, or when
\* the first row the store returns has kill_signal HALT; an unreachable store
\* counts as no HALT
check_kill_switch(up, first) ==
    IF Getenv(override) # "ACTIVE" THEN FALSE
    ELSE IF up /\ first # 0 /\ system_status[first].kill_signal = "HALT" THEN FALSE
    ELSE TRUE

\* whether check_kill_switch gets as far as the remote read
ReadsRemote == Getenv(override) = "ACTIVE"

NoKill == [op |-> "none", override |-> "UNSET", up |-> FALSE, rows |-> <<>>,
           first |-> 0, read_remote |-> FALSE, result |-> TRUE]

\* a call of check_kill_switch, with the environment and the table it ran on
CheckKillSwitch ==
    /\ \E up \in BOOLEAN, first \in FirstRows :
         kret' = [op |-> "check_kill_switch", override |-> override, up |-> up,
                  rows |-> system_status, first |-> first,
                  read_remote |-> ReadsRemote,
                  result |-> check_kill_switch(up, first)]
    /\ UNCHANGED <<override, system_status, current_mode, mode_ret>>

\* a row an operator writes to system_status
StatusRow(kill_signal) ==
    [current_mode |-> "NULL", previous_mode |-> "NULL", kill_signal |-> kill_signal]

\* the operator starts the process with SOVEREIGN_OVERRIDE set to HALT
SetOverride ==
    /\ mpc = "init"
    /\ override = "UNSET"
    /\ override' = "HALT"
    /\ UNCHANGED <<system_status, kret, current_mode, mode_ret, now, ledger, wret,
                   last_check, end_time, wake_at, mpc, events, idx, mret, evaluated,
                   readFailed>>

\* the operator sets or unsets SOVEREIGN_OVERRIDE for the processes started
\* from now on
SetEnvironment ==
    /\ \E v \in OverrideValues \cup {"UNSET"} :
         /\ v # override
         /\ override' = v
    /\ UNCHANGED <<system_status, kret, current_mode, mode_ret>>

\* the operator writes HALT to system_status
SetKillSignal ==
    /\ Len(system_status) < MaxStatusRows
    /\ \A i \in 1..Len(system_status) : system_status[i].kill_signal # "HALT"
    /\ system_status' = Append(system_status, StatusRow("HALT"))
    /\ UNCHANGED <<override, kret, current_mode, mode_ret, now, ledger, wret,
                   last_check, end_time, wake_at, mpc, events, idx, mret, evaluated,
                   readFailed>>

\* the operator writes a status row with or without a halt request
SetRemoteStatus ==
    /\ Len(system_status) < MaxStatusRows
    /\ \E k \in {"HALT", "CLEAR"} :
         system_status' = Append(system_status, StatusRow(k))
    /\ UNCHANGED <<override, kret, current_mode, mode_ret>>

\* ------------------------------------------------------------------------
\* modes.py

Modes == {"money", "discovery", "survivor"}

\* modes callers pass to set_mode
ModeArgs == Modes \cup {"stealth"}

NoMode == [op |-> "none", new_mode |-> "none", result |-> FALSE]

\* a set_mode that assigned current_mode before its insert
set_mode_eager(new_mode) ==
    IF new_mode \notin Modes
    THEN /\ mode_ret' = [op |-> "set_mode", new_mode |-> new_mode, result |-> FALSE]
         /\ UNCHANGED <<system_status, current_mode>>
    ELSE /\ Len(system_status) < MaxStatusRows
         /\ current_mode' = new_mode
         /\ \E up \in BOOLEAN :
              IF up
              THEN /\ system_status' = Append(system_status,
                          [current_mode |-> new_mode, previous_mode |-> current_mode,
                           kill_signal |-> "NULL"])
                   /\ mode_ret' = [op |-> "set_mode", new_mode |-> new_mode,
                                   result |-> TRUE]
              ELSE /\ mode_ret' = [op |-> "set_mode", new_mode |-> new_mode,
                                   result |-> FALSE]
                   /\ UNCHANGED system_status

\* ModeManager.set_mode: False for an unknown mode or a failed insert;
\* otherwise one system_status row and current_mode = new_mode
set_mode(new_mode) ==
    IF new_mode \notin Modes
    THEN /\ mode_ret' = [op |-> "set_mode", new_mode |-> new_mode, result |-> FALSE]
         /\ UNCHANGED <<system_status, current_mode>>
    ELSE /\ Len(system_status) < MaxStatusRows
         /\ \E up \in BOOLEAN :
              IF up
              THEN /\ system_status' = Append(system_status,
                          [current_mode |-> new_mode, previous_mode |-> current_mode,
                           kill_signal |-> "NULL"])
                   /\ current_mode' = new_mode
                   /\ mode_ret' = [op |-> "set_mode", new_mode |-> new_mode,
                                   result |-> TRUE]
              ELSE /\ mode_ret' = [op |-> "set_mode", new_mode |-> new_mode,
                                   result |-> FALSE]
                   /\ UNCHANGED <<system_status, current_mode>>

\* a call of ModeManager.set_mode
SetMode ==
    /\ \E new_mode \in ModeArgs : set_mode(new_mode)
    /\ UNCHANGED <<override, kret>>

\* ------------------------------------------------------------------------
\* event_monitor.py

NoHandle == [raised |-> FALSE, triggered |-> FALSE, spawns |-> <<>>]

\* process_event matching on message_type alone, whoever wrote the record
process_event_any_agent(entry) ==
    LET msg_type == entry.message_type
        agent_id == entry.agent_id
        payload  == entry.payload
        call == IF msg_type = "security_alert"
                THEN <<"security_alert", "security_response">>
                ELSE IF msg_type = "pulse_scan"
                THEN IF Get(payload, "return_pct", 0) > 10
                     THEN <<"market_scan", "volatility_response">> ELSE <<>>
                ELSE IF msg_type = "plan_validation"
                THEN IF Get(payload, "verdict", "None") = "REJECTED"
                     THEN <<"plan_rejected", "plan_response">> ELSE <<>>
                ELSE IF msg_type = "github_scan"
                THEN IF Get(payload, "new_repos", 0) > 2
                     THEN <<"github_scan", "github_response">> ELSE <<>>
                ELSE <<>>
        h == IF call = <<>> THEN NoHandle ELSE handle_event(call[1], payload)
    IN  [entry |-> entry.id,
         trigger |-> IF call = <<>> THEN "none" ELSE call[1],
         raised |-> h.raised,
         spawns |-> h.spawns,
         responses |-> IF h.triggered THEN <<call[2]>> ELSE <<>>]

\* EventMonitor.process_event: the handle_event call it makes, if any, and the
\* responses it returns, or the exception that call raised
process_event(entry) ==
    LET msg_type == entry.message_type
        agent_id == entry.agent_id
        payload  == entry.payload
        call == IF msg_type = "security_alert" /\ Contains("ghost_commit", agent_id)
                THEN <<"security_alert", "security_response">>
                ELSE IF msg_type = "pulse_scan" /\ Contains("pulse", agent_id)
                THEN IF Get(payload, "return_pct", 0) > 10
                     THEN <<"market_scan", "volatility_response">> ELSE <<>>
                ELSE IF msg_type = "plan_validation" /\ Contains("inquisitor", agent_id)
                THEN IF Get(payload, "verdict", "None") = "REJECTED"
                     THEN <<"plan_rejected", "plan_response">> ELSE <<>>
                ELSE IF msg_type = "github_scan" /\ Contains("ghost_commit", agent_id)
                THEN IF Get(payload, "new_repos", 0) > 2
                     THEN <<"github_scan", "github_response">> ELSE <<>>
                ELSE <<>>
        h == IF call = <<>> THEN NoHandle ELSE handle_event(call[1], payload)
    IN  [entry |-> entry.id,
         trigger |-> IF call = <<>> THEN "none" ELSE call[1],
         raised |-> h.raised,
         spawns |-> h.spawns,
         responses |-> IF h.triggered THEN <<call[2]>> ELSE <<>>]

\* the rows a read at watermark w returns: created_at >= w, newest first
NewEvents(w) ==
    LET ids == {i \in 1..Len(ledger) : ledger[i].created_at >= w}
    IN  [k \in 1..Cardinality(ids) |->
            CHOOSE i \in ids : Cardinality({j \in ids : j > i}) = k - 1]

\* run_monitor up to its loop: end_time = now + duration
MonitorStart ==
    /\ mpc = "init"
    /\ end_time' = now + DurationTicks
    /\ mpc' = "loop"
    /\ UNCHANGED <<now, ledger, wret, last_check, wake_at, events, idx, mret,
                   evaluated, readFailed>>

\* the loop test holds: check_new_events reads the ledger, or returns [] when
\* the store is unreachable
MonitorPoll ==
    /\ mpc = "loop"
    /\ now < end_time
    /\ \E up \in BOOLEAN :
         /\ events' = IF up THEN NewEvents(last_check) ELSE <<>>
         /\ readFailed' = (readFailed \/ ~up)
         /\ lostWindow' = IF up THEN lostWindow
                          ELSE lostWindow \cup Range(NewEvents(last_check))
    /\ read_at' = now
    /\ idx' = 1
    /\ mpc' = "process"
    /\ UNCHANGED <<now, ledger, wret, last_check, end_time, wake_at, mret, evaluated>>

\* one turn of "for event in events"; an exception out of process_event is
\* caught nowhere and ends run_monitor
MonitorProcess ==
    /\ mpc = "process"
    /\ idx <= Len(events)
    /\ mret' = process_event(ledger[events[idx]])
    /\ evaluated' = [evaluated EXCEPT ![events[idx]] = @ + 1]
    /\ idx' = idx + 1
    /\ mpc' = IF mret'.raised THEN "crashed" ELSE mpc
    /\ UNCHANGED <<now, ledger, wret, last_check, end_time, wake_at, events,
                   readFailed>>

\* the batch is done and the watermark reaches back one poll interval before
\* the previous one
MonitorEndCycle_rewind ==
    /\ mpc = "process"
    /\ idx > Len(events)
    /\ now > read_at
    /\ last_check' = last_check - PollTicks
    /\ wake_at' = now + PollTicks
    /\ mpc' = "sleep"
    /\ UNCHANGED <<now, ledger, wret, end_time, events, idx, mret, evaluated,
                   readFailed>>

\* the batch is done and the watermark stays where it was
MonitorEndCycle_keep ==
    /\ mpc = "process"
    /\ idx > Len(events)
    /\ now > read_at
    /\ last_check' = last_check
    /\ wake_at' = now + PollTicks
    /\ mpc' = "sleep"
    /\ UNCHANGED <<now, ledger, wret, end_time, events, idx, mret, evaluated,
                   readFailed>>

\* the batch is done: last_check = datetime.now(), then time.sleep(30).  The
\* read was a round trip to the store, so this datetime.now() is later than
\* the moment the store answered.
MonitorEndCycle ==
    /\ mpc = "process"
    /\ idx > Len(events)
    /\ now > read_at
    /\ last_check' = now
    /\ wake_at' = now + PollTicks
    /\ mpc' = "sleep"
    /\ UNCHANGED <<now, ledger, wret, end_time, events, idx, mret, evaluated,
                   readFailed>>

\* the sleep is over
MonitorWake ==
    /\ mpc = "sleep"
    /\ now >= wake_at
    /\ mpc' = "loop"
    /\ UNCHANGED <<now, ledger, wret, last_check, end_time, wake_at, events, idx,
                   mret, evaluated, readFailed>>

\* the loop test fails: run_monitor returns
MonitorExit ==
    /\ mpc = "loop"
    /\ now >= end_time
    /\ mpc' = "done"
    /\ UNCHANGED <<now, ledger, wret, last_check, end_time, wake_at, events, idx,
                   mret, evaluated, readFailed>>

\* a worker writes a finding
WriteFinding == \E f \in Findings : write_to_ledger(f)

\* time passes; subprocess.run(timeout=...) lets a running task reach its
\* deadline, not pass it
Tick ==
    /\ now < MaxTime
    /\ spc = "run" => now < cur.deadline
    /\ other.spc = "run" => now < other.deadline
    /\ now' = now + 1
    /\ UNCHANGED <<ledger, wret, last_check, end_time, wake_at, mpc, events, idx,
                   mret, evaluated, readFailed>>

NoProcess == [entry |-> 0, trigger |-> "none", raised |-> FALSE, spawns |-> <<>>,
              responses |-> <<>>]

NoCheck == [pc |-> "idle", event_hash |-> <<>>, seen |-> {}, marked |-> {}]

\* ------------------------------------------------------------------------
\* spider.py

\* the urls of test_urls the model keeps
NumUrls == 2

\* SpiderWorker after __init__ and the start of run: running, the listener
\* thread about to check (lpc: check, sleep, exited), the work loop at its
\* while (wpc: while, for, scan, wait, stopped) and the url the for loop is
\* at.  History: read, how the listener's last select went; stop_at, where
\* the work loop was when the listener set running to False; after, the
\* scans started since then.
NewSpider == [running |-> TRUE, lpc |-> "check", wpc |-> "while", url |-> 1,
              read |-> "none", stop_at |-> "none", after |-> 0]

\* the record check_kill_signal looks for
ShutdownRecord(i) ==
    /\ ledger[i].agent_id = "VIP"
    /\ ledger[i].message_type = "SHUTDOWN"
    /\ ledger[i].status = "active"

\* the VIP writes an active SHUTDOWN record
IssueShutdown ==
    /\ \A i \in 1..Len(ledger) : ~ShutdownRecord(i)
    /\ ledger' = Append(ledger,
           [id |-> Len(ledger) + 1, agent_id |-> "VIP", agent_type |-> "vip",
            message_type |-> "SHUTDOWN", payload |-> [reason |-> "operator"],
            status |-> "active", created_at |-> now])
    /\ evaluated' = Append(evaluated, 0)
    /\ UNCHANGED <<now, wret, last_check, end_time, wake_at, mpc, events, idx, mret,
                   readFailed, spider>>

\* SpiderWorker.check_kill_signal, one turn of its loop: the loop ends when
\* running is False; a select that finds an active SHUTDOWN record of the VIP
\* sets running to False and ends the thread (sys.exit); a select that fails
\* is passed over; then the sleep of kill_check_interval
check_kill_signal ==
    /\ spider.lpc = "check"
    /\ IF ~spider.running
       THEN spider' = [spider EXCEPT !.lpc = "exited"]
       ELSE \E up \in BOOLEAN :
              IF ~up
              THEN spider' = [spider EXCEPT !.read = "failed", !.lpc = "sleep"]
              ELSE IF \E i \in 1..Len(ledger) : ShutdownRecord(i)
              THEN spider' = [spider EXCEPT !.read = "ok",
                                            !.running = FALSE,
                                            !.lpc = "exited",
                                            !.stop_at = spider.wpc]
              ELSE spider' = [spider EXCEPT !.read = "ok", !.lpc = "sleep"]
    /\ UNCHANGED <<now, ledgerVars>>

\* time.sleep(self.kill_check_interval) is over
SpiderListenerWake ==
    /\ spider.lpc = "sleep"
    /\ spider' = [spider EXCEPT !.lpc = "check"]
    /\ UNCHANGED <<now, ledgerVars>>

\* run: "while self.running", and the finally block when it fails
SpiderWhile ==
    /\ spider.wpc = "while"
    /\ spider' = IF spider.running
                 THEN [spider EXCEPT !.wpc = "for", !.url = 1]
                 ELSE [spider EXCEPT !.wpc = "stopped"]
    /\ UNCHANGED <<now, ledgerVars>>

\* the head of the for loop taking the next url without looking at running
SpiderFor_nocheck ==
    /\ spider.wpc = "for"
    /\ spider' = IF spider.url > NumUrls
                 THEN [spider EXCEPT !.wpc = "while"]
                 ELSE [spider EXCEPT !.wpc = "scan"]
    /\ UNCHANGED <<now, ledgerVars>>

\* run: the head of "for url in test_urls" and "if not self.running: break"
SpiderFor ==
    /\ spider.wpc = "for"
    /\ spider' = IF spider.url > NumUrls \/ ~spider.running
                 THEN [spider EXCEPT !.wpc = "while"]
                 ELSE [spider EXCEPT !.wpc = "scan"]
    /\ UNCHANGED <<now, ledgerVars>>

\* run: scan_target(url), which ends with write_to_ledger of its report; the
\* insert fails when the store is unreachable (or the table of the model is
\* full) and scan_target goes on
SpiderScan ==
    /\ spider.wpc = "scan"
    /\ spider' = [spider EXCEPT !.wpc = "wait",
                                !.after = IF spider.running THEN @ ELSE @ + 1]
    /\ \E up \in BOOLEAN, status \in {"success", "failed"} :
         IF up /\ Len(ledger) < MaxRecords
         THEN /\ ledger' = Append(ledger,
                    [id |-> Len(ledger) + 1, agent_id |-> "spider_001",
                     agent_type |-> "worker", message_type |-> "real_scan_complete",
                     payload |-> [url |-> spider.url, status |-> status],
                     status |-> "pending", created_at |-> now])
              /\ evaluated' = Append(evaluated, 0)
              /\ wret' = TRUE
         ELSE /\ wret' = FALSE
              /\ UNCHANGED <<ledger, evaluated>>
    /\ UNCHANGED <<now, last_check, end_time, wake_at, mpc, events, idx, mret,
                   readFailed>>

\* run: time.sleep(30) after the scan is over
SpiderWait ==
    /\ spider.wpc = "wait"
    /\ spider' = [spider EXCEPT !.wpc = "for", !.url = @ + 1]
    /\ UNCHANGED <<now, ledgerVars>>

\* the steps of the work loop, which touch the worker and the ledger only
SpiderRun ==
    /\ SpiderWhile \/ SpiderFor \/ SpiderScan \/ SpiderWait
    /\ UNCHANGED <<votes, ret, truth, lastTrue, read_at, lostWindow, override,
                   system_status, kret, current_mode, mode_ret, files, task, spc,
                   cur, sret, hret, other, chk, whale>>

\* ------------------------------------------------------------------------
\* whale.py as a process

\* the whale worker about to run its __main__ block (pc: start, scan, halted,
\* done); gate is what its check_kill_switch returned
NewWhale == [pc |-> "start", gate |-> TRUE]

\* __main__ going on to fetch_whale_tx whatever check_kill_switch returned
WhaleStart_ungated ==
    /\ whale.pc = "start"
    /\ \E up \in BOOLEAN, first \in FirstRows :
         /\ kret' = [op |-> "check_kill_switch", override |-> override, up |-> up,
                     rows |-> system_status, first |-> first,
                     read_remote |-> ReadsRemote,
                     result |-> check_kill_switch(up, first)]
         /\ whale' = [pc |-> "scan", gate |-> check_kill_switch(up, first)]
    /\ UNCHANGED <<override, system_status, current_mode, mode_ret>>

\* __main__: sys.exit(0) when check_kill_switch returns False, otherwise
\* fetch_whale_tx
WhaleStart ==
    /\ whale.pc = "start"
    /\ \E up \in BOOLEAN, first \in FirstRows :
         /\ kret' = [op |-> "check_kill_switch", override |-> override, up |-> up,
                     rows |-> system_status, first |-> first,
                     read_remote |-> ReadsRemote,
                     result |-> check_kill_switch(up, first)]
         /\ whale' = [pc |-> IF check_kill_switch(up, first) THEN "scan" ELSE "halted",
                      gate |-> check_kill_switch(up, first)]
    /\ UNCHANGED <<override, system_status, current_mode, mode_ret>>

\* fetch_whale_tx meets a qualifying transfer
WhaleTransfer ==
    /\ whale.pc = "scan"
    /\ WhaleAlert
    /\ UNCHANGED whale

\* fetch_whale_tx has gone through the wallets: "Whale scan complete"
WhaleDone ==
    /\ whale.pc = "scan"
    /\ whale' = [whale EXCEPT !.pc = "done"]

\* the worker is started again
WhaleRestart ==
    /\ whale.pc \in {"halted", "done"}
    /\ whale' = [whale EXCEPT !.pc = "start"]

\* ------------------------------------------------------------------------
\* specifications

\* an empty store and a monitor just constructed (last_check = now)
Init ==
    /\ votes = <<>>
    /\ ret = NoRet
    /\ truth = {}
    /\ lastTrue = [h \in Hashes |-> -1]
    /\ now = 0
    /\ ledger = <<>>
    /\ wret = FALSE
    /\ last_check = 0
    /\ end_time = 0
    /\ wake_at = 0
    /\ mpc = "init"
    /\ events = <<>>
    /\ idx = 1
    /\ mret = NoProcess
    /\ evaluated = <<>>
    /\ readFailed = FALSE
    /\ read_at = 0
    /\ lostWindow = {}
    /\ override = "UNSET"
    /\ system_status = <<>>
    /\ kret = NoKill
    /\ current_mode = "discovery"
    /\ mode_ret = NoMode
    /\ other = NoOther
    /\ files = {}
    /\ task = "none"
    /\ spc = "idle"
    /\ cur = NoSpawn
    /\ sret = NoSpawnRet
    /\ hret = NoCall
    /\ chk = NoCheck
    /\ spider = NewSpider
    /\ whale = NewWhale

\* the consensus engine
Next ==
    \/ CastVote /\ UNCHANGED monitorVars
    \/ CheckConsensus /\ UNCHANGED monitorVars
    \/ GetPendingEvents /\ UNCHANGED monitorVars

Spec == Init /\ [][Next]_vars

\* the consensus engine with votes of several agents
AgentsNext ==
    \/ CastVoteAnyAgent /\ UNCHANGED monitorVars
    \/ CheckConsensus /\ UNCHANGED monitorVars
    \/ GetPendingEvents /\ UNCHANGED monitorVars

AgentsSpec == Init /\ [][AgentsNext]_vars

\* agents that vote while a check_consensus is between its two requests
RaceNext ==
    \/ CastVoteAnyAgent /\ UNCHANGED monitorVars
    \/ CheckConsensusSelect
         /\ UNCHANGED <<now, ledgerVars, pollVars, killVars, incubatorVars, spider, whale>>
    \/ CheckConsensusUpdate
         /\ UNCHANGED <<now, ledgerVars, pollVars, killVars, incubatorVars, spider, whale>>

RaceSpec == Init /\ [][RaceNext]_vars

\* the spider worker, its listener thread and the VIP
SpiderNext ==
    \/ check_kill_signal
         /\ UNCHANGED <<voterVars, pollVars, killVars, incubatorVars, chk, whale>>
    \/ SpiderListenerWake
         /\ UNCHANGED <<voterVars, pollVars, killVars, incubatorVars, chk, whale>>
    \/ SpiderWhile
         /\ UNCHANGED <<voterVars, pollVars, killVars, incubatorVars, chk, whale>>
    \/ SpiderFor
         /\ UNCHANGED <<voterVars, pollVars, killVars, incubatorVars, chk, whale>>
    \/ SpiderScan
         /\ UNCHANGED <<voterVars, pollVars, killVars, incubatorVars, chk, whale>>
    \/ SpiderWait
         /\ UNCHANGED <<voterVars, pollVars, killVars, incubatorVars, chk, whale>>
    \/ IssueShutdown
         /\ UNCHANGED <<voterVars, pollVars, killVars, incubatorVars, chk, whale>>

\* the main thread is scheduled, and its requests and sleeps end
SpiderSpec == Init /\ [][SpiderNext]_vars /\ WF_vars(SpiderRun)

\* the whale worker as a process, and the operator of the kill switch
WhaleNext ==
    \/ WhaleStart
         /\ UNCHANGED <<voterVars, now, ledgerVars, pollVars, incubatorVars, chk, spider>>
    \/ WhaleTransfer
         /\ UNCHANGED <<pollVars, killVars, incubatorVars, chk, spider>>
    \/ WhaleDone
         /\ UNCHANGED <<voterVars, now, ledgerVars, pollVars, killVars, incubatorVars,
                        chk, spider>>
    \/ WhaleRestart
         /\ UNCHANGED <<voterVars, now, ledgerVars, pollVars, killVars, incubatorVars,
                        chk, spider>>
    \/ SetOverride /\ UNCHANGED <<voterVars, pollVars, incubatorVars, processVars>>
    \/ SetKillSignal /\ UNCHANGED <<voterVars, pollVars, incubatorVars, processVars>>

WhaleSpec == Init /\ [][WhaleNext]_vars

\* the event monitor, the workers that write to the ledger, and the clock
MonitorNext ==
    \/ MonitorStart
         /\ UNCHANGED <<voterVars, pollVars, killVars, incubatorVars, processVars>>
    \/ MonitorPoll /\ UNCHANGED <<voterVars, killVars, incubatorVars, processVars>>
    \/ MonitorProcess
         /\ UNCHANGED <<voterVars, pollVars, killVars, incubatorVars, processVars>>
    \/ MonitorEndCycle
         /\ UNCHANGED <<voterVars, pollVars, killVars, incubatorVars, processVars>>
    \/ MonitorWake
         /\ UNCHANGED <<voterVars, pollVars, killVars, incubatorVars, processVars>>
    \/ MonitorExit
         /\ UNCHANGED <<voterVars, pollVars, killVars, incubatorVars, processVars>>
    \/ WriteFinding
         /\ UNCHANGED <<voterVars, pollVars, killVars, incubatorVars, processVars>>
    \/ Tick /\ UNCHANGED <<voterVars, pollVars, killVars, incubatorVars, processVars>>
    \/ SetOverride /\ UNCHANGED <<voterVars, pollVars, incubatorVars, processVars>>
    \/ SetKillSignal /\ UNCHANGED <<voterVars, pollVars, incubatorVars, processVars>>

MonitorSpec == Init /\ [][MonitorNext]_vars

\* the incubator and the clock
IncubatorNext ==
    \/ SpawnStart
         /\ UNCHANGED <<voterVars, ledgerVars, pollVars, killVars, processVars>>
    \/ SpawnFinish
         /\ UNCHANGED <<voterVars, ledgerVars, pollVars, killVars, processVars>>
    \/ SpawnTimeout
         /\ UNCHANGED <<voterVars, ledgerVars, pollVars, killVars, processVars>>
    \/ HandleEvent
         /\ UNCHANGED <<voterVars, ledgerVars, pollVars, killVars, processVars>>
    \/ Tick /\ UNCHANGED <<voterVars, pollVars, killVars, incubatorVars, processVars>>

IncubatorSpec == Init /\ [][IncubatorNext]_vars

\* everything that writes to the votes and the ledger
StoreNext ==
    \/ WhaleAlert /\ UNCHANGED <<pollVars, killVars, incubatorVars, processVars>>
    \/ CheckConsensus /\ UNCHANGED monitorVars
    \/ WriteSimulation
         /\ UNCHANGED <<voterVars, pollVars, killVars, incubatorVars, processVars>>
    \/ ReporterBriefing
         /\ UNCHANGED <<voterVars, pollVars, killVars, incubatorVars, processVars>>

StoreSpec == Init /\ [][StoreNext]_vars

\* two incubators on one temp_dir and the clock
ConcurrentNext ==
    \/ SpawnStart
         /\ UNCHANGED <<voterVars, ledgerVars, pollVars, killVars, processVars>>
    \/ SpawnFinish
         /\ UNCHANGED <<voterVars, ledgerVars, pollVars, killVars, processVars>>
    \/ SpawnTimeout
         /\ UNCHANGED <<voterVars, ledgerVars, pollVars, killVars, processVars>>
    \/ OtherSpawnStart
         /\ UNCHANGED <<voterVars, ledgerVars, pollVars, killVars, processVars>>
    \/ OtherSpawnEnd
         /\ UNCHANGED <<voterVars, ledgerVars, pollVars, killVars, processVars>>
    \/ Tick /\ UNCHANGED <<voterVars, pollVars, killVars, incubatorVars, processVars>>

ConcurrentSpec == Init /\ [][ConcurrentNext]_vars

\* the kill switch, the mode manager and the operator
StatusNext ==
    \/ CheckKillSwitch
         /\ UNCHANGED <<voterVars, now, ledgerVars, pollVars, incubatorVars, processVars>>
    \/ SetEnvironment
         /\ UNCHANGED <<voterVars, now, ledgerVars, pollVars, incubatorVars, processVars>>
    \/ SetRemoteStatus
         /\ UNCHANGED <<voterVars, now, ledgerVars, pollVars, incubatorVars, processVars>>
    \/ SetMode
         /\ UNCHANGED <<voterVars, now, ledgerVars, pollVars, incubatorVars, processVars>>

StatusSpec == Init /\ [][StatusNext]_vars

\* ------------------------------------------------------------------------
\* claims about the consensus engine

\* the rows of the table with the given fingerprint, as row numbers
RowsOf(h) == {i \in 1..Len(votes) : votes[i].event_hash = h}

RECURSIVE DecimalSum(_, _)
\* the exact sum, in hundredths, of the confidence scores of the first i rows
\* of vs
DecimalSum(vs, i) ==
    IF i = 0 THEN 0 ELSE DecimalSum(vs, i - 1) + vs[i].confidence_score

\* C1: once check_consensus(h) has returned True, every later
\* check_consensus(h) returns True, whatever votes were cast in between.
C1_CheckConsensusMonotonic ==
    (ret.op = "check_consensus" /\ ret.event_hash \in truth) => ret.ok

QuorumBoundary(h) ==
    LET vs == SelectVotes(h)
    IN  /\ Len(vs) = MIN_AGENTS
        /\ \E j \in 1..Len(vs) :
             /\ vs[j].confidence_score >= CONFIDENCE_THRESHOLD
             /\ \A i \in 1..Len(vs) : i # j => vs[i].confidence_score = 100

\* C3: with fewer than 3 votes for h, check_consensus(h) returns False with
\* the message count/3 and changes no vote; with 2 votes at 1.0 and a third at
\* the threshold or above it returns True.
C3_QuorumBoundary ==
    [][\A h \in Hashes :
        (ret'.op = "check_consensus" /\ ret'.event_hash = h)
        => /\ Len(SelectVotes(h)) < 3
                => /\ ~ret'.ok
                   /\ ret'.kind = "insufficient"
                   /\ ret'.count = Len(SelectVotes(h))
                   /\ ret'.quorum = 3
                   /\ votes' = votes
           /\ QuorumBoundary(h) => ret'.ok]_vars

\* C3 witness: the third vote made the quorum
C3_Witness ==
    /\ ret.op = "check_consensus"
    /\ ret.ok
    /\ QuorumBoundary(ret.event_hash)
    /\ \E i \in RowsOf(ret.event_hash) : votes[i].confidence_score = CONFIDENCE_THRESHOLD

\* C3 witness of the unconfirmed side: two votes at 1.0 are refused
C3_WitnessBelow ==
    /\ ret.op = "check_consensus"
    /\ ~ret.ok
    /\ ret.count = MIN_AGENTS - 1
    /\ \A i \in RowsOf(ret.event_hash) : votes[i].confidence_score = 100

\* C4: with at least MIN_AGENTS votes, check_consensus(h) returns True exactly
\* when the mean of the confidence scores is at least the threshold, a mean
\* equal to the threshold included.
C4_ConfidenceBoundary ==
    (ret.op = "check_consensus" /\ ret.count >= MIN_AGENTS)
    => LET vs == SelectVotes(ret.event_hash)
       IN  ret.ok <=> (DecimalSum(vs, Len(vs)) >= CONFIDENCE_THRESHOLD * Len(vs))

\* C5: check_consensus(h) on an event that a check confirmed, with no vote
\* cast since, returns True with the same confidence and changes no vote.
C5_CheckConsensusIdempotent ==
    [][\A h \in Hashes :
        (ret'.op = "check_consensus" /\ ret'.event_hash = h /\ lastTrue[h] # -1)
        => /\ ret'.ok
           /\ ret'.conf = lastTrue[h]
           /\ votes' = votes
           /\ \A i \in RowsOf(h) : votes'[i].vote_status = "confirmed"]_vars

\* C5 witness: a repeated check of a confirmed event returned True
C5_Witness ==
    /\ ret.op = "check_consensus"
    /\ ret.repeat
    /\ ret.ok
    /\ \A i \in RowsOf(ret.event_hash) : votes[i].vote_status = "confirmed"

\* C6: no operation takes a vote from confirmed back to pending; rows are
\* never removed.
C6_StatusMonotonic ==
    [][/\ Len(votes') >= Len(votes)
       /\ \A i \in 1..Len(votes) :
            votes[i].vote_status = "confirmed" => votes'[i].vote_status = "confirmed"]_vars

\* C6 witness: a check that failed on a confirmed event left its votes
\* confirmed
C6_Witness ==
    /\ ret.op = "check_consensus"
    /\ ~ret.ok
    /\ \E i \in RowsOf(ret.event_hash) : votes[i].vote_status = "confirmed"

\* C7: cast_vote appends one pending vote carrying its arguments, returns the
\* fingerprint of the evidence and changes no existing vote.
C7_CastVoteAppendsOnePending ==
    [][ret'.op = "cast_vote"
        => /\ Len(votes') = Len(votes) + 1
           /\ SubSeq(votes', 1, Len(votes)) = votes
           /\ LET v == votes'[Len(votes')]
              IN  /\ v.vote_status = "pending"
                  /\ v.agent_id = ret'.args[1].agent_id
                  /\ v.agent_type = ret'.args[1].agent_type
                  /\ v.evidence_payload = ret'.args[2]
                  /\ v.confidence_score = ret'.args[3]
                  /\ v.vote_category = ret'.args[4]
                  /\ v.event_hash = ret'.event_hash
                  /\ ret'.event_hash = generate_event_hash(ret'.args[2])]_vars

\* C7 witness: a vote was cast on an event that already has a confirmed vote
C7_Witness ==
    /\ ret.op = "cast_vote"
    /\ votes[Len(votes)].vote_status = "pending"
    /\ \E i \in 1..(Len(votes) - 1) :
         votes[i].vote_status = "confirmed" /\ votes[i].event_hash = ret.event_hash

\* C8: votes whose evidence holds the same key/value pairs have the same
\* event_hash, whatever the insertion order and whoever cast them.
C8_FingerprintOrderIndependent ==
    \A i, j \in 1..Len(votes) :
        Range(votes[i].evidence_payload) = Range(votes[j].evidence_payload)
        => votes[i].event_hash = votes[j].event_hash

\* C8 witness: two agents voted on the same content in different key order
C8_Witness ==
    \E i, j \in 1..Len(votes) :
        /\ votes[i].evidence_payload # votes[j].evidence_payload
        /\ Range(votes[i].evidence_payload) = Range(votes[j].evidence_payload)
        /\ votes[i].agent_id # votes[j].agent_id
        /\ votes[i].event_hash = votes[j].event_hash

\* C9: get_pending_events returns each fingerprint that has a pending vote
\* exactly once and no other, and changes no vote.
C9_PendingEventsExact ==
    [][ret'.op = "get_pending_events"
        => /\ votes' = votes
           /\ Range(ret'.pending)
                = {votes[i].event_hash : i \in {k \in 1..Len(votes) :
                                                  votes[k].vote_status = "pending"}}
           /\ \A i, j \in 1..Len(ret'.pending) :
                ret'.pending[i] = ret'.pending[j] => i = j]_vars

\* C9 witness: a fingerprint with two pending votes and a confirmed one is
\* listed once
C9_Witness ==
    /\ ret.op = "get_pending_events"
    /\ Len(ret.pending) = 1
    /\ Cardinality({i \in RowsOf(ret.pending[1]) : votes[i].vote_status = "pending"}) >= 2


\* ------------------------------------------------------------------------
\* claims about the event monitor

\* C10: when every ledger read succeeded, each record older than the
\* watermark has been evaluated in some poll cycle: no record written while
\* a cycle was reading or processing is skipped.
C10_WatermarkLeavesNoGap ==
    ~readFailed =>
        \A i \in 1..Len(ledger) :
            ledger[i].created_at < last_check => evaluated[i] >= 1

\* C11: no ledger record is passed to process_event in more than one poll
\* cycle.
C11_WindowsDoNotOverlap ==
    \A i \in 1..Len(ledger) : evaluated[i] <= 1

\* two records, each evaluated once, the second in a later cycle than the
\* first
C11_Witness ==
    /\ mpc = "process"
    /\ Len(ledger) = 2
    /\ events = <<2>>
    /\ idx = 2
    /\ evaluated = <<1, 1>>

\* C12: a failed ledger read does not move the watermark past the records it
\* would have returned: each of them is evaluated or still at or after the
\* watermark.
C12_FailedReadIsRetried ==
    \A i \in lostWindow :
        evaluated[i] = 0 => ledger[i].created_at >= last_check

\* C13: handling a matching record never ends run_monitor: the monitor does
\* not stop on an exception out of process_event.
C13_ResponseFailureIsNotFatal ==
    mpc # "crashed"

\* C14: a poll cycle starts only when check_kill_switch returns True.
C14_KillSwitchGatesEachCycle ==
    [][(mpc = "loop" /\ mpc' = "process") =>
        \E first \in FirstRows : check_kill_switch(TRUE, first)]_vars

\* C15: when run_monitor has ended, every record of the batch its last cycle
\* fetched has been evaluated.
C15_StopsAtCycleBoundary ==
    mpc \in {"done", "crashed"} => idx > Len(events)

\* ------------------------------------------------------------------------
\* claims about the incubator

C17_TimeoutIsEnforced ==
    /\ [](spc = "run" => now <= cur.deadline)
    /\ [][(spc = "run" /\ spc' = "idle") =>
            /\ task' # "running"
            /\ sret'.returned <= cur.started + cur.timeout
            /\ (sret'.outcome = "timeout") <=> (task' = "killed")
            /\ (task' = "killed") => (now >= cur.deadline)]_vars

\* a spawn has returned at its deadline with its subprocess killed
C17_Witness ==
    /\ spc = "idle"
    /\ sret.outcome = "timeout"
    /\ task = "killed"
    /\ sret.returned = sret.started + sret.timeout

\* C18: spawn returns True only when the task ran to completion within the
\* timeout, and something else on a timeout or a fault.
C18_ResultDistinguishesOutcomes ==
    sret.op = "spawn" => (sret.result = "True" <=> sret.outcome = "completed")

\* C19: a spawn of an unregistered task type returns None and creates no
\* file and no subprocess.
C19_UnknownTemplateHasNoEffect ==
    [][(sret' # sret /\ sret'.op = "spawn" /\ sret'.task_type \notin Templates) =>
        /\ sret'.result = "None"
        /\ files' = files
        /\ task' = task
        /\ spc' = spc
        /\ cur' = cur]_vars

\* a spawn of an unregistered type has returned
C19_Witness ==
    /\ sret.op = "spawn"
    /\ sret.task_type \notin Templates
    /\ sret.result = "None"
    /\ files = {}

\* C20: handle_event with a trigger that is not in event_map, or whose
\* condition is false on the event data, returns False and makes no spawn.
C20_HandleEventNegativePaths ==
    (/\ hret.call # <<>>
     /\ \/ hret.call[1] \notin DOMAIN event_map
        \/ ~Condition(hret.call[1], hret.call[2]))
    => (hret.result = "False" /\ hret.spawns = <<>>)

\* the rule of event_map that a call of handle_event fires, if any
Fires(call) ==
    /\ call # <<>>
    /\ call[1] \in DOMAIN event_map
    /\ Condition(call[1], call[2])

\* C21: when the rule's condition holds, handle_event makes one spawn per
\* entry of the rule's spawn list, in the list's order, each with timeout 60,
\* and returns True whatever the spawns returned.
C21_PositivePathSpawnsAll ==
    Fires(hret.call) =>
        /\ hret.result = "True"
        /\ Len(hret.spawns) = Len(event_map[hret.call[1]].spawn)
        /\ \A i \in 1..Len(hret.spawns) :
              /\ hret.spawns[i].task_type = event_map[hret.call[1]].spawn[i]
              /\ hret.spawns[i].timeout = 60

\* C22: handle_event answers True exactly when the trigger is one of the
\* four of the rule table and its condition holds on the event data (a
\* missing field counting as not holding), and False otherwise.
C22_DefaultRuleTable ==
    hret.call # <<>> =>
        hret.result = IF Fires(hret.call) THEN "True" ELSE "False"

\* C23: a pulse_scan record of a pulse agent whose return_pct is above 10 in
\* absolute value is forwarded to handle_event as market_scan.
C23_MonitorUsesAbsoluteReturn ==
    (/\ mret.entry # 0
     /\ ledger[mret.entry].message_type = "pulse_scan"
     /\ Contains("pulse", ledger[mret.entry].agent_id)
     /\ Abs(Get(ledger[mret.entry].payload, "return_pct", 0)) > 10)
    => mret.trigger = "market_scan"

\* C24: with SOVEREIGN_OVERRIDE set to anything but ACTIVE, check_kill_switch
\* returns False without reading system_status, whatever the store holds and
\* whether or not it can be reached; an unset variable counts as ACTIVE.
C24_LocalOverrideFailsClosed ==
    kret.op = "check_kill_switch" =>
        /\ kret.override \notin {"UNSET", "ACTIVE"} =>
              (~kret.result /\ ~kret.read_remote)
        /\ kret.override \in {"UNSET", "ACTIVE"} => kret.read_remote

\* an override that is neither ACTIVE nor HALT stopped the system although
\* the store was reachable and its row did not ask for a halt
C24_Witness ==
    /\ kret.op = "check_kill_switch"
    /\ kret.override = "PAUSED"
    /\ kret.up
    /\ kret.first # 0
    /\ kret.rows[kret.first].kill_signal = "CLEAR"
    /\ ~kret.result

\* C25: with no local override and an unreachable store, check_kill_switch
\* returns True.
C25_FailsOpen ==
    (/\ kret.op = "check_kill_switch"
     /\ Getenv(kret.override) = "ACTIVE"
     /\ ~kret.up)
    => kret.result

\* the store held a HALT row and could not be reached: the check said True
C25_Witness ==
    /\ kret.op = "check_kill_switch"
    /\ kret.override = "UNSET"
    /\ ~kret.up
    /\ kret.first # 0
    /\ kret.rows[kret.first].kill_signal = "HALT"
    /\ kret.result

\* C26: with no local override and a reachable store, check_kill_switch
\* returns False when the newest row of system_status asks for HALT, and
\* True when the table is empty or no row of it asks for HALT.
C26_RemoteSignal ==
    (/\ kret.op = "check_kill_switch"
     /\ Getenv(kret.override) = "ACTIVE"
     /\ kret.up)
    => /\ (kret.rows # <<>> /\ kret.rows[Len(kret.rows)].kill_signal = "HALT")
            => ~kret.result
       /\ (\A i \in 1..Len(kret.rows) : kret.rows[i].kill_signal # "HALT")
            => kret.result

\* C27: two spawns that run at the same time have different temp files, and
\* the temp file of a spawn exists for as long as its subprocess runs: no
\* other spawn's cleanup removes it.
C27_SpawnsShareNoState ==
    /\ (spc = "run" /\ other.spc = "run") => cur.temp_file # other.temp_file
    /\ spc = "run" => cur.temp_file \in files
    /\ other.spc = "run" => other.temp_file \in files

\* C28: no step deletes a ledger record or a vote, and the only field of an
\* existing record or vote that a step changes is its status.
C28_StoreIsAppendOnly ==
    [][/\ Len(ledger') >= Len(ledger)
       /\ \A i \in 1..Len(ledger) :
             [ledger'[i] EXCEPT !.status = ledger[i].status] = ledger[i]
       /\ Len(votes') >= Len(votes)
       /\ \A i \in 1..Len(votes) :
             [votes'[i] EXCEPT !.vote_status = votes[i].vote_status] = votes[i]]_vars

\* votes were confirmed, the one change of existing rows, with records of
\* two writers in the ledger
C28_Witness ==
    /\ \E i \in 1..Len(votes) : votes[i].vote_status = "confirmed"
    /\ \E i \in 1..Len(votes) : votes[i].vote_status = "pending"
    /\ \E i, j \in 1..Len(ledger) : ledger[i].agent_id # ledger[j].agent_id

\* C29: every record in the ledger has a status among pending, active,
\* confirmed and published.
C29_LedgerStatusDomain ==
    \A i \in 1..Len(ledger) :
        ledger[i].status \in {"pending", "active", "confirmed", "published"}

AllVotes(h) ==
    [k \in 1..Cardinality(RowsOf(h)) |->
        votes[CHOOSE i \in RowsOf(h) : Cardinality({j \in RowsOf(h) : j < i}) = k - 1]]

\* the agents that voted on h
VotersOf(h) == {votes[i].agent_id : i \in RowsOf(h)}

C32_ConfirmedVotesWereEvaluated ==
    chk.marked \subseteq chk.seen

\* the table vs holds a pending vote for h
HasPending(vs, h) ==
    \E i \in 1..Len(vs) : vs[i].event_hash = h /\ vs[i].vote_status = "pending"

\* C33: a check_consensus(h) that returns True leaves no pending vote for h,
\* and h stays out of the pending events until a vote for h is cast; a vote
\* cast for h is stored pending, confirmed fingerprint or not, and h stays
\* among the pending events at least until check_consensus(h) runs again;
\* get_pending_events lists h exactly when h has a pending vote.
C33_ConfirmedLeavesPendingUntilVote ==
    [][\A h \in Hashes :
        /\ (ret'.op = "check_consensus" /\ ret'.event_hash = h /\ ret'.ok)
             => ~HasPending(votes', h)
        /\ (~HasPending(votes, h) /\ ~(ret'.op = "cast_vote" /\ ret'.event_hash = h))
             => ~HasPending(votes', h)
        /\ (ret'.op = "cast_vote" /\ ret'.event_hash = h)
             => (HasPending(votes', h) /\ votes'[Len(votes')].vote_status = "pending")
        /\ (HasPending(votes, h) /\ ~(ret'.op = "check_consensus" /\ ret'.event_hash = h))
             => HasPending(votes', h)
        /\ ret'.op = "get_pending_events"
             => (h \in Range(ret'.pending) <=> HasPending(votes, h))]_vars

\* a confirmed fingerprint is listed as pending again after a further vote
C33_Witness ==
    /\ ret.op = "get_pending_events"
    /\ \E k \in 1..Len(ret.pending) :
         /\ ret.pending[k] \in truth
         /\ \E i \in RowsOf(ret.pending[k]) : votes[i].vote_status = "confirmed"
         /\ \E i \in RowsOf(ret.pending[k]) : votes[i].vote_status = "pending"

\* ------------------------------------------------------------------------
\* further claims about the incubator and the event monitor

\* the response-agent types the rule table names
ResponseAgents == UNION {Range(event_map[t].spawn) : t \in DOMAIN event_map}

\* C34: a spawn of a response-agent type of the rule table finds a template
\* for it and runs it.
C34_ResponseAgentsAreRegistered ==
    (sret.op = "spawn" /\ sret.task_type \in ResponseAgents)
    => (sret.task_type \in Templates /\ sret.outcome # "unknown template")

\* the rules of process_event: message_type, agent family, trigger
MonitorRules ==
    { <<"security_alert", "ghost_commit", "security_alert">>,
      <<"pulse_scan", "pulse", "market_scan">>,
      <<"plan_validation", "inquisitor", "plan_rejected">>,
      <<"github_scan", "ghost_commit", "github_scan">> }

\* the rules whose message_type and agent family the ledger row e matches
RulesMatching(e) ==
    {r \in MonitorRules : r[1] = e.message_type /\ Contains(r[2], e.agent_id)}

\* C35: process_event calls handle_event for a record only with the trigger
\* of a rule whose message_type and agent family the record matches; a
\* record that matches no rule causes no call; no record yields more than
\* one response.
C35_RulesMatchTypeAndFamily ==
    mret.entry # 0 =>
        /\ mret.trigger # "none"
             => \E r \in RulesMatching(ledger[mret.entry]) : r[3] = mret.trigger
        /\ RulesMatching(ledger[mret.entry]) = {}
             => (mret.trigger = "none" /\ mret.spawns = <<>> /\ ~mret.raised)
        /\ Len(mret.responses) <= 1

\* a pulse_scan record of an agent outside the pulse family was evaluated
\* and caused no call
C35_Witness ==
    /\ mret.entry # 0
    /\ ledger[mret.entry].message_type = "pulse_scan"
    /\ ~Contains("pulse", ledger[mret.entry].agent_id)
    /\ mret.trigger = "none"

\* C36: last_check never decreases, and only the end of a cycle changes it.
C36_WatermarkNeverDecreases ==
    [][/\ last_check' >= last_check
       /\ last_check' # last_check => (mpc = "process" /\ mpc' = "sleep")]_vars

\* a cycle is under way after the watermark was moved
C36_Witness ==
    /\ last_check > 0
    /\ mpc = "process"
    /\ read_at > last_check

\* ------------------------------------------------------------------------
\* claims about the workers and the mode manager

ModeRowAppended ==
    /\ Len(system_status') = Len(system_status) + 1
    /\ SubSeq(system_status', 1, Len(system_status)) = system_status
    /\ system_status'[Len(system_status')].kill_signal = "NULL"

\* C39: current_mode is always one of money, discovery, survivor. A set_mode
\* with an unknown mode returns False, and a set_mode that returned False
\* left current_mode and system_status as they were. current_mode changes
\* only in a set_mode that returned True for that mode and appended exactly
\* one row, which names the new mode and the previous one; and every such
\* row comes from a set_mode that returned True and left current_mode equal
\* to the requested mode.
C39_ModeStaysKnown ==
    /\ [](/\ current_mode \in Modes
          /\ (mode_ret.op = "set_mode" /\ mode_ret.new_mode \notin Modes)
                => ~mode_ret.result)
    /\ [][/\ (mode_ret' # mode_ret /\ ~mode_ret'.result)
                => /\ current_mode' = current_mode
                   /\ system_status' = system_status
          /\ current_mode' # current_mode
                => /\ mode_ret'.result
                   /\ mode_ret'.new_mode = current_mode'
                   /\ system_status' = Append(system_status,
                          [current_mode |-> current_mode',
                           previous_mode |-> current_mode,
                           kill_signal |-> "NULL"])
          /\ ModeRowAppended
                => /\ mode_ret'.op = "set_mode"
                   /\ mode_ret'.result
                   /\ mode_ret'.new_mode \in Modes
                   /\ current_mode' = mode_ret'.new_mode
                   /\ system_status'[Len(system_status')].current_mode = current_mode'
                   /\ system_status'[Len(system_status')].previous_mode = current_mode]_vars

\* after a switch to another mode, a set_mode to a third mode failed at its
\* insert, and the manager is still in the mode of the switch
C39_Witness ==
    /\ mode_ret.op = "set_mode"
    /\ ~mode_ret.result
    /\ mode_ret.new_mode \in Modes \ {current_mode}
    /\ current_mode # "discovery"
    /\ Len(system_status) >= 1
    /\ system_status[Len(system_status)].kill_signal = "NULL"
    /\ system_status[Len(system_status)].current_mode = current_mode

====
